---- MODULE Spec2Model ----
(***************************************************************************)
(* Resume critique engine: the rule-based suggestion generator             *)
(* (cli_critic.fallback_generator and its copy main._fallback), the        *)
(* model-backed adapter main.generate_improvement_json, the CLI entry      *)
(* point cli_critic.main and the Analyze handler of the interactive page.  *)
(*                                                                         *)
(* A Python str is a sequence of one-character strings, so that the        *)
(* regular expressions of the source (word boundaries, tokenisation,       *)
(* metrics detection) are computed on characters.  A str of the output is  *)
(* a sequence of chunks read as their concatenation: a fixed advice line   *)
(* is one chunk, a keyword or token is its characters.                     *)
(***************************************************************************)
EXTENDS Integers, Sequences, FiniteSets, TLC

----------------------------------------------------------------------------
(* Bounds of the explored inputs *)

\* Pieces concatenated to build the resume text and the job description
\* of a generator run (both texts together)
MaxPieces == 3

\* Fragments concatenated to build the resume of a metrics run
MaxMetricPieces == 2

\* Pieces concatenated to build both texts of an adapter run
MaxAdapterPieces == 1

\* Pieces concatenated to build each text of a front-end run
MaxFrontPieces == 1

----------------------------------------------------------------------------
(* Characters and the re / str primitives used by the source *)

Digits == {"0","1","2","3","4","5","6","7","8","9"}

LowerLetters ==
    <<"a","b","c","d","e","f","g","h","i","j","k","l","m",
      "n","o","p","q","r","s","t","u","v","w","x","y","z">>

UpperLetters ==
    <<"A","B","C","D","E","F","G","H","I","J","K","L","M",
      "N","O","P","Q","R","S","T","U","V","W","X","Y","Z">>

Range(s) == {s[i] : i \in DOMAIN s}

Letters == Range(LowerLetters) \cup Range(UpperLetters)

\* \w of the re module
WordChars == Letters \cup Digits \cup {"_"}

\* the character class [a-zA-Z0-9\+\-#]
TokenChars == Letters \cup Digits \cup {"+", "-", "#"}

Min(a, b) == IF a < b THEN a ELSE b

\* s[:n]
Take(s, n) == SubSeq(s, 1, Min(n, Len(s)))

\* x in list
InSeq(x, s) == \E i \in DOMAIN s : s[i] = x

\* str.lower() of one character
lower_char(c) ==
    IF c \in Range(UpperLetters)
    THEN LowerLetters[CHOOSE i \in DOMAIN UpperLetters : UpperLetters[i] = c]
    ELSE c

\* str.lower()
lower(text) == [i \in DOMAIN text |-> lower_char(text[i])]

\* the literal lit occurs in text at position i
match_at(lit, text, i) ==
    /\ i >= 1
    /\ i + Len(lit) - 1 <= Len(text)
    /\ \A k \in DOMAIN lit : text[i + k - 1] = lit[k]

\* re.search of a literal pattern
contains(text, lit) == \E i \in 1..Len(text) : match_at(lit, text, i)

is_word_at(text, q) == q \in DOMAIN text /\ text[q] \in WordChars

\* \b holds just before position p (p = Len(text) + 1 is the end of the text)
word_boundary(text, p) == is_word_at(text, p - 1) # is_word_at(text, p)

\* re.search(r"\b" + re.escape(kw) + r"\b", text)
re_search_word(kw, text) ==
    \E i \in 1..Len(text) :
        /\ match_at(kw, text, i)
        /\ word_boundary(text, i)
        /\ word_boundary(text, i + Len(kw))

\* re.search(r"\d+" + lit, text)
digits_then(text, lit) ==
    \E i \in 1..Len(text) : \E j \in (i + 1)..Len(text) :
        /\ \A k \in i..(j - 1) : text[k] \in Digits
        /\ match_at(lit, text, j)

RECURSIVE run_end(_, _)
\* first position at or after i that is not in the token character class
run_end(text, i) ==
    IF i <= Len(text) /\ text[i] \in TokenChars
    THEN run_end(text, i + 1)
    ELSE i

SetMax(S) == CHOOSE x \in S : \A y \in S : y <= x

SetMin(S) == CHOOSE x \in S : \A y \in S : x <= y

\* positions just after a match of [a-zA-Z0-9\+\-#]+\b that starts at p
match_ends(text, p) ==
    {j \in (p + 1)..run_end(text, p) : word_boundary(text, j)}

\* positions at or after i where \b[a-zA-Z0-9\+\-#]+\b matches
match_starts(text, i) ==
    {p \in i..Len(text) : word_boundary(text, p) /\ match_ends(text, p) # {}}

RECURSIVE findall_from(_, _)
\* re.findall(r"\b[a-zA-Z0-9\+\-#]+\b", text), scanning from position i:
\* the leftmost match is taken, greedy (the longest run of class characters
\* that ends at a word boundary), and the scan resumes just after it
findall_from(text, i) ==
    LET starts == match_starts(text, i)
    IN  IF starts = {} THEN <<>>
        ELSE LET p == SetMin(starts)
                 j == SetMax(match_ends(text, p))
             IN  <<SubSeq(text, p, j - 1)>> \o findall_from(text, j)

findall_tokens(text) == findall_from(text, 1)

----------------------------------------------------------------------------
(* Python values and JSON text *)

\* json / Python values: a list with its items, or a scalar with its text
\* (the content of a str, the JSON source text of a number, null or object)
PyList(items) == [t |-> "list", items |-> items, s |-> <<>>]

PyStr(s) == [t |-> "str", items |-> <<>>, s |-> s]

\* a list of str built from a sequence of strs
StrList(strs) == PyList([i \in DOMAIN strs |-> PyStr(strs[i])])

\* a fixed advice line
Line(text) == <<text>>

PyNone == [t |-> "null", items |-> <<>>, s |-> <<"null">>]

\* JSON text is a sequence of lexemes: the braces of an object, its
\* members, a value that is not an object, white space, and text that is
\* not JSON
LBrace == [lx |-> "{", k |-> "", v |-> PyNone]

RBrace == [lx |-> "}", k |-> "", v |-> PyNone]

Member(k, v) == [lx |-> "member", k |-> k, v |-> v]

Value(v) == [lx |-> "value", k |-> "", v |-> v]

Chatter == [lx |-> "text", k |-> "", v |-> PyNone]

WhiteSpace == [lx |-> "ws", k |-> "", v |-> PyNone]

\* json.dumps(d, separators=(',', ':')) of a dict with str keys
json_dumps(d) ==
    <<LBrace>> \o [i \in DOMAIN d |-> Member(d[i][1], d[i][2])] \o <<RBrace>>

----------------------------------------------------------------------------
(* Process-wide constants of the generator *)

tech_keywords ==
    << <<"p","y","t","h","o","n">>,
       <<"s","q","l">>,
       <<"a","w","s">>,
       <<"d","o","c","k","e","r">>,
       <<"k","u","b","e","r","n","e","t","e","s">>,
       <<"r","e","a","c","t">>,
       <<"n","o","d","e">>,
       <<"t","e","n","s","o","r","f","l","o","w">>,
       <<"p","a","n","d","a","s">>,
       <<"s","p","a","r","k">>,
       <<"j","a","v","a">>,
       <<"j","a","v","a","s","c","r","i","p","t">>,
       <<"c","l","o","u","d">>,
       <<"c","i","/","c","d">>,
       <<"e","t","l">>,
       <<"l","i","n","u","x">>,
       <<"g","i","t">>,
       <<"r","e","s","t">>,
       <<"a","p","i">>,
       <<"m","o","n","g","o","d","b">>,
       <<"p","o","s","t","g","r","e","s","q","l">>,
       <<"m","y","s","q","l">>,
       <<"a","z","u","r","e">>,
       <<"g","c","p">>,
       <<"j","e","n","k","i","n","s">>,
       <<"k","a","f","k","a">>,
       <<"s","c","a","l","a">>,
       <<"g","o","l","a","n","g">>,
       <<"r","u","s","t">>,
       <<"t","y","p","e","s","c","r","i","p","t">>,
       <<"v","u","e">>,
       <<"a","n","g","u","l","a","r">>,
       <<"d","j","a","n","g","o">>,
       <<"f","l","a","s","k">>,
       <<"f","a","s","t","a","p","i">> >>

stopwords ==
    { <<"t","h","e">>,
       <<"a","n","d">>,
       <<"a">>,
       <<"t","o">>,
       <<"o","f">>,
       <<"i","n">>,
       <<"f","o","r">>,
       <<"w","i","t","h">>,
       <<"o","n">>,
       <<"a","s">>,
       <<"i","s">>,
       <<"b","e">>,
       <<"b","y">>,
       <<"o","r">>,
       <<"a","r","e">>,
       <<"a","t">>,
       <<"f","r","o","m">>,
       <<"t","h","a","t">>,
       <<"t","h","i","s">>,
       <<"i","t">>,
       <<"y","o","u">>,
       <<"w","e">>,
       <<"y","o","u","r">>,
       <<"o","u","r">>,
       <<"n","o","t">>,
       <<"c","a","n">>,
       <<"h","a","v","e">>,
       <<"b","e","e","n">>,
       <<"h","a","s">>,
       <<"w","a","s">>,
       <<"w","e","r","e">>,
       <<"d","o">>,
       <<"d","o","e","s">>,
       <<"d","i","d">>,
       <<"w","o","u","l","d">>,
       <<"c","o","u","l","d">>,
       <<"s","h","o","u","l","d">>,
       <<"m","a","y">>,
       <<"m","i","g","h","t">>,
       <<"m","u","s","t">> }

MaxMissing == 8

TopWords == 10

MaxKeywords == 8

MinTokenLen == 3

DefaultKeywords ==
    << <<"s","c","a","l","a","b","i","l","i","t","y">>,
       <<"o","p","t","i","m","i","z","a","t","i","o","n">>,
       <<"a","r","c","h","i","t","e","c","t","u","r","e">> >>

ProjectWords ==
    { <<"p","r","o","j","e","c","t">>,
      <<"g","i","t","h","u","b">>,
      <<"p","o","r","t","f","o","l","i","o">>,
      <<"b","u","i","l","t">>,
      <<"c","r","e","a","t","e","d">>,
      <<"d","e","v","e","l","o","p","e","d">> }

ExperienceWords ==
    { <<"e","x","p","e","r","i","e","n","c","e">>,
      <<"w","o","r","k","e","d">>,
      <<"e","m","p","l","o","y","e","d">> }

ExperienceUnits ==
    { <<" ","y","e","a","r","s">>,
      <<" ","y","e","a","r">>,
      <<" ","m","o","n","t","h","s">>,
      <<" ","m","o","n","t","h">> }

MetricsUnits ==
    { <<" ","u","s","e","r","s">>,
      <<" ","c","u","s","t","o","m","e","r","s">>,
      <<" ","t","r","a","n","s","a","c","t","i","o","n","s">> }

----------------------------------------------------------------------------
(* cli_critic.fallback_generator *)

\* missing without the test on the resume
missing_ignoring_resume(resume_lower, jd_lower) ==
    SelectSeq(tech_keywords, LAMBDA kw : re_search_word(kw, jd_lower))

\* for kw in tech_keywords: in the job description and not in the resume
missing(resume_lower, jd_lower) ==
    SelectSeq(tech_keywords,
              LAMBDA kw : /\ re_search_word(kw, jd_lower)
                          /\ ~re_search_word(kw, resume_lower))

\* for kw in tech_keywords: in the resume
present_tech(resume_lower) ==
    SelectSeq(tech_keywords, LAMBDA kw : re_search_word(kw, resume_lower))

\* two templated lines naming present_tech[0], or the empty list
skills_to_strengthen(present) ==
    IF present # <<>>
    THEN << <<"Quantify proficiency for ">> \o present[1]
                \o <<" (years, projects, outcomes)">>,
            <<"Add specific use-cases for ">> \o present[1]
                \o <<" (e.g., built X, optimized Y)">> >>
    ELSE <<>>

\* skipped testing the capped list missing[:8] instead of missing
skipped_capped(w, miss, present) ==
    \/ w \in stopwords
    \/ Len(w) < MinTokenLen
    \/ InSeq(w, Take(miss, MaxMissing))
    \/ InSeq(w, present)

\* the test that skips a word of the job description
skipped(w, miss, present) ==
    \/ w \in stopwords
    \/ Len(w) < MinTokenLen
    \/ InSeq(w, miss)
    \/ InSeq(w, present)

\* freq[w] = freq.get(w, 0) + 1 on an insertion-ordered dict of <<word, count>>
freq_add(freq, w) ==
    IF \E i \in DOMAIN freq : freq[i][1] = w
    THEN [i \in DOMAIN freq |->
             IF freq[i][1] = w THEN <<w, freq[i][2] + 1>> ELSE freq[i]]
    ELSE Append(freq, <<w, 1>>)

RECURSIVE freq_loop(_, _, _, _, _)
\* for w in words: ... from index i on, with the dict built so far
freq_loop(words, i, miss, present, freq) ==
    IF i > Len(words) THEN freq
    ELSE IF skipped(words[i], miss, present)
         THEN freq_loop(words, i + 1, miss, present, freq)
         ELSE freq_loop(words, i + 1, miss, present, freq_add(freq, words[i]))

\* sorted_insert placing an item before the items of equal count
sorted_insert_unstable(sorted, item) ==
    LET before == {i \in DOMAIN sorted : sorted[i][2] <= item[2]}
        at == IF before = {} THEN Len(sorted) + 1
              ELSE CHOOSE i \in before : \A j \in before : i <= j
    IN  SubSeq(sorted, 1, at - 1) \o <<item>> \o SubSeq(sorted, at, Len(sorted))

\* insert an item after every item whose count is at least its own
sorted_insert(sorted, item) ==
    LET before == {i \in DOMAIN sorted : sorted[i][2] < item[2]}
        at == IF before = {} THEN Len(sorted) + 1
              ELSE CHOOSE i \in before : \A j \in before : i <= j
    IN  SubSeq(sorted, 1, at - 1) \o <<item>> \o SubSeq(sorted, at, Len(sorted))

RECURSIVE sorted_from(_, _, _)
sorted_from(items, i, sorted) ==
    IF i > Len(items) THEN sorted
    ELSE sorted_from(items, i + 1, sorted_insert(sorted, items[i]))

\* sorted(freq.items(), key=lambda x: -x[1]): stable, descending count
sorted_by_count(items) == sorted_from(items, 1, <<>>)

\* the words of the job description kept, most frequent first
keywords_to_add(jd_lower, miss, present) ==
    LET words == findall_tokens(jd_lower)
        freq == freq_loop(words, 1, miss, present, <<>>)
        top == Take(sorted_by_count(freq), TopWords)
    IN  Take([i \in DOMAIN top |-> top[i][1]], MaxKeywords)

\* has_metrics searching the lower-cased resume
has_metrics_lowered(resume_text) ==
    \/ digits_then(lower(resume_text), <<"%">>)
    \/ \E i \in 1..(Len(resume_text) - 1) :
           resume_text[i] = "$" /\ resume_text[i + 1] \in Digits
    \/ digits_then(lower(resume_text), <<"x">>)
    \/ \E u \in MetricsUnits : digits_then(lower(resume_text), u)

\* \d+%|\$\d+|\d+x|\d+ (users|customers|transactions) on the original text
has_metrics(resume_text) ==
    \/ digits_then(resume_text, <<"%">>)
    \/ \E i \in 1..(Len(resume_text) - 1) :
           resume_text[i] = "$" /\ resume_text[i + 1] \in Digits
    \/ digits_then(resume_text, <<"x">>)
    \/ \E u \in MetricsUnits : digits_then(resume_text, u)

\* project|github|portfolio|built|created|developed
has_projects(resume_lower) == \E w \in ProjectWords : contains(resume_lower, w)

\* \d+ (years?|months?)|experience|worked|employed
has_experience(resume_lower) ==
    \/ \E u \in ExperienceUnits : digits_then(resume_lower, u)
    \/ \E w \in ExperienceWords : contains(resume_lower, w)

experience_improvements_always_reorder(metrics, experience) ==
    LET a == IF ~metrics
             THEN <<Line("Add quantified outcomes (%, revenue, time saved) to experience bullets")>>
             ELSE <<>>
        b == IF experience
             THEN Append(a, Line("Highlight achievements from most recent roles that match job responsibilities"))
             ELSE a
        c == Append(b, Line("Include team size, reporting relationships, and scope of impact for major roles"))
    IN  Append(c, Line("Reorder bullets to prioritize items matching the job description"))

experience_improvements(metrics, experience) ==
    LET a == IF ~metrics
             THEN <<Line("Add quantified outcomes (%, revenue, time saved) to experience bullets")>>
             ELSE <<>>
        b == IF experience
             THEN Append(a, Line("Highlight achievements from most recent roles that match job responsibilities"))
             ELSE a
        c == Append(b, Line("Include team size, reporting relationships, and scope of impact for major roles"))
    IN  IF Len(c) < 3
        THEN Append(c, Line("Reorder bullets to prioritize items matching the job description"))
        ELSE c

project_improvements(projects) ==
    LET a == IF projects
             THEN <<Line("Specify technologies used for each project (stack details)"),
                    Line("Add measurable outcomes or impact (performance gains, user metrics)")>>
             ELSE <<Line("Add a Projects section if applicable (GitHub, portfolio work)")>>
    IN  Append(a, Line("Include project timelines and team size/collaboration model"))

\* (the en dash of "2-3" in the source is written as a hyphen)
resume_structure_improvements ==
    <<Line("Add a headline summary (job title + 2-3 key strengths aligned to role)"),
      Line("Create a dedicated Skills section grouped by category (Languages, Frameworks, Cloud, Tools)"),
      Line("Ensure consistent formatting with clear section headers and proper spacing")>>

\* language_and_wording with the test on has_metrics inverted
language_and_wording_inverted(metrics) ==
    LET a == <<Line("Replace passive phrases (\"responsible for\") with active verbs (led, implemented, delivered)"),
               Line("Quantify or make specific vague claims (change \"experienced with\" to \"5+ years of\")")>>
    IN  IF metrics
        THEN Append(a, Line("Add metrics to action verbs (reduced X by Y%, increased Z)"))
        ELSE a

language_and_wording(metrics) ==
    LET a == <<Line("Replace passive phrases (\"responsible for\") with active verbs (led, implemented, delivered)"),
               Line("Quantify or make specific vague claims (change \"experienced with\" to \"5+ years of\")")>>
    IN  IF ~metrics
        THEN Append(a, Line("Add metrics to action verbs (reduced X by Y%, increased Z)"))
        ELSE a

ats_optimization ==
    <<Line("Include keyword phrases from job posting in Skills and Experience sections naturally"),
      Line("Use standard section headers (no symbols or special formatting) for ATS parsing"),
      Line("Save as clean PDF or DOCX; avoid tables, images, and unusual fonts")>>

\* or_else without the default
or_else_no_default(x, default) == x

\* x or default
or_else(x, default) == IF x # <<>> THEN x ELSE default

\* the dict literal result = {...}: an insertion-ordered sequence of <<key, value>>
result_dict(resume_text, job_description) ==
    LET resume_lower == lower(resume_text)
        jd_lower == lower(job_description)
        miss == missing(resume_lower, jd_lower)
        present == present_tech(resume_lower)
        metrics == has_metrics(resume_text)
    IN  << <<"missing_skills",
             StrList(or_else(Take(miss, MaxMissing),
                 <<Line("Review job posting for domain-specific skills not on resume")>>))>>,
           <<"skills_to_strengthen",
             StrList(or_else(skills_to_strengthen(present),
                 <<Line("Add proficiency levels and use-cases for existing skills")>>))>>,
           <<"keywords_to_add",
             StrList(or_else(keywords_to_add(jd_lower, miss, present), DefaultKeywords))>>,
           <<"experience_improvements",
             StrList(experience_improvements(metrics, has_experience(resume_lower)))>>,
           <<"project_improvements",
             StrList(project_improvements(has_projects(resume_lower)))>>,
           <<"resume_structure_improvements", StrList(resume_structure_improvements)>>,
           <<"language_and_wording", StrList(language_and_wording(metrics))>>,
           <<"ats_optimization", StrList(ats_optimization)>> >>

\* def fallback_generator(resume_text, job_description) -> str
fallback_generator(resume_text, job_description) ==
    json_dumps(result_dict(resume_text, job_description))

----------------------------------------------------------------------------
(* main.generate_improvement_json._fallback: the copy of the generator     *)
(* nested in the adapter                                                   *)

\* for kw in tech_keywords: in the job description and not in the resume
fb_missing(resume_lower, jd_lower) ==
    SelectSeq(tech_keywords,
              LAMBDA kw : /\ re_search_word(kw, jd_lower)
                          /\ ~re_search_word(kw, resume_lower))

\* for kw in tech_keywords: in the resume
fb_present_tech(resume_lower) ==
    SelectSeq(tech_keywords, LAMBDA kw : re_search_word(kw, resume_lower))

\* two templated lines naming fb_present_tech[0], or the empty list
fb_skills_to_strengthen(present) ==
    IF present # <<>>
    THEN << <<"Quantify proficiency for ">> \o present[1]
                \o <<" (years, projects, outcomes)">>,
            <<"Add specific use-cases for ">> \o present[1]
                \o <<" (e.g., built X, optimized Y)">> >>
    ELSE <<>>

\* the test that skips a word of the job description
fb_skipped(w, miss, present) ==
    \/ w \in stopwords
    \/ Len(w) < MinTokenLen
    \/ InSeq(w, miss)
    \/ InSeq(w, present)

\* freq[w] = freq.get(w, 0) + 1 on an insertion-ordered dict of <<word, count>>
fb_freq_add(freq, w) ==
    IF \E i \in DOMAIN freq : freq[i][1] = w
    THEN [i \in DOMAIN freq |->
             IF freq[i][1] = w THEN <<w, freq[i][2] + 1>> ELSE freq[i]]
    ELSE Append(freq, <<w, 1>>)

RECURSIVE fb_freq_loop(_, _, _, _, _)
\* for w in words: ... from index i on, with the dict built so far
fb_freq_loop(words, i, miss, present, freq) ==
    IF i > Len(words) THEN freq
    ELSE IF fb_skipped(words[i], miss, present)
         THEN fb_freq_loop(words, i + 1, miss, present, freq)
         ELSE fb_freq_loop(words, i + 1, miss, present, fb_freq_add(freq, words[i]))

\* the words of the job description kept, most frequent first
fb_keywords_to_add(jd_lower, miss, present) ==
    LET words == findall_tokens(jd_lower)
        freq == fb_freq_loop(words, 1, miss, present, <<>>)
        top == Take(sorted_by_count(freq), TopWords)
    IN  Take([i \in DOMAIN top |-> top[i][1]], MaxKeywords)

\* fb_has_metrics searching the lower-cased resume
fb_has_metrics_lowered(resume_text) == has_metrics(lower(resume_text))

\* \d+%|\$\d+|\d+x|\d+ (users|customers|transactions) on the original text
fb_has_metrics(resume_text) ==
    \/ digits_then(resume_text, <<"%">>)
    \/ \E i \in 1..(Len(resume_text) - 1) :
           resume_text[i] = "$" /\ resume_text[i + 1] \in Digits
    \/ digits_then(resume_text, <<"x">>)
    \/ \E u \in MetricsUnits : digits_then(resume_text, u)

\* project|github|portfolio|built|created|developed
fb_has_projects(resume_lower) == \E w \in ProjectWords : contains(resume_lower, w)

\* \d+ (years?|months?)|experience|worked|employed
fb_has_experience(resume_lower) ==
    \/ \E u \in ExperienceUnits : digits_then(resume_lower, u)
    \/ \E w \in ExperienceWords : contains(resume_lower, w)

fb_experience_improvements(metrics, experience) ==
    LET a == IF ~metrics
             THEN <<Line("Add quantified outcomes (%, revenue, time saved) to experience bullets")>>
             ELSE <<>>
        b == IF experience
             THEN Append(a, Line("Highlight achievements from most recent roles that match job responsibilities"))
             ELSE a
        c == Append(b, Line("Include team size, reporting relationships, and scope of impact for major roles"))
    IN  IF Len(c) < 3
        THEN Append(c, Line("Reorder bullets to prioritize items matching the job description"))
        ELSE c

fb_project_improvements(projects) ==
    LET a == IF projects
             THEN <<Line("Specify technologies used for each project (stack details)"),
                    Line("Add measurable outcomes or impact (performance gains, user metrics)")>>
             ELSE <<Line("Add a Projects section if applicable (GitHub, portfolio work)")>>
    IN  Append(a, Line("Include project timelines and team size/collaboration model"))

\* (the en dash of "2-3" in the source is written as a hyphen)
fb_resume_structure_improvements ==
    <<Line("Add a headline summary (job title + 2-3 key strengths aligned to role)"),
      Line("Create a dedicated Skills section grouped by category (Languages, Frameworks, Cloud, Tools)"),
      Line("Ensure consistent formatting with clear section headers and proper spacing")>>

fb_language_and_wording(metrics) ==
    LET a == <<Line("Replace passive phrases (\"responsible for\") with active verbs (led, implemented, delivered)"),
               Line("Quantify or make specific vague claims (change \"experienced with\" to \"5+ years of\")")>>
    IN  IF ~metrics
        THEN Append(a, Line("Add metrics to action verbs (reduced X by Y%, increased Z)"))
        ELSE a

fb_ats_optimization ==
    <<Line("Include keyword phrases from job posting in Skills and Experience sections naturally"),
      Line("Use standard section headers (no symbols or special formatting) for ATS parsing"),
      Line("Save as clean PDF or DOCX; avoid tables, images, and unusual fonts")>>

\* x or default
fb_or_else(x, default) == IF x # <<>> THEN x ELSE default

\* the dict literal result = {...}: an insertion-ordered sequence of <<key, value>>
fb_result_dict(resume_text, job_description) ==
    LET resume_lower == lower(resume_text)
        jd_lower == lower(job_description)
        miss == fb_missing(resume_lower, jd_lower)
        present == fb_present_tech(resume_lower)
        metrics == fb_has_metrics(resume_text)
    IN  << <<"missing_skills",
             StrList(fb_or_else(Take(miss, MaxMissing),
                 <<Line("Review job posting for domain-specific skills not on resume")>>))>>,
           <<"skills_to_strengthen",
             StrList(fb_or_else(fb_skills_to_strengthen(present),
                 <<Line("Add proficiency levels and use-cases for existing skills")>>))>>,
           <<"keywords_to_add",
             StrList(fb_or_else(fb_keywords_to_add(jd_lower, miss, present), DefaultKeywords))>>,
           <<"experience_improvements",
             StrList(fb_experience_improvements(metrics, fb_has_experience(resume_lower)))>>,
           <<"project_improvements",
             StrList(fb_project_improvements(fb_has_projects(resume_lower)))>>,
           <<"resume_structure_improvements", StrList(fb_resume_structure_improvements)>>,
           <<"language_and_wording", StrList(fb_language_and_wording(metrics))>>,
           <<"ats_optimization", StrList(fb_ats_optimization)>> >>

\* def _fallback(resume_text, job_description) -> str
main_fallback(resume_text, job_description) ==
    json_dumps(fb_result_dict(resume_text, job_description))

----------------------------------------------------------------------------
(* main.generate_improvement_json: the model-backed adapter *)

required_keys ==
    <<"missing_skills", "skills_to_strengthen", "keywords_to_add",
      "experience_improvements", "project_improvements",
      "resume_structure_improvements", "language_and_wording",
      "ats_optimization">>

Placeholder == Line("Add relevant details here")

\* key in d, d[key] and d[key] = v on an insertion-ordered dict
dict_has(d, key) == \E i \in DOMAIN d : d[i][1] = key

dict_get(d, key) == d[CHOOSE i \in DOMAIN d : d[i][1] = key][2]

dict_set(d, key, v) ==
    IF dict_has(d, key)
    THEN [i \in DOMAIN d |-> IF d[i][1] = key THEN <<key, v>> ELSE d[i]]
    ELSE Append(d, <<key, v>>)

\* str(x) of a parsed JSON value
py_str(v) ==
    CASE v.t = "str" -> v.s
      [] v.t = "null" -> <<"None">>
      [] v.t = "num" -> v.s
      [] v.t = "dict" -> <<"{", "'a': 1", "}">>
      [] v.t = "list" -> <<"[", "...", "]">>

\* str.strip()
strip(text) ==
    LET solid == {i \in DOMAIN text : text[i].lx # "ws"}
    IN  IF solid = {} THEN <<>>
        ELSE SubSeq(text, SetMin(solid), SetMax(solid))

\* json_text.find('{') + 1: the position of the first brace, 0 if none
find_lbrace(text) ==
    LET at == {i \in DOMAIN text : text[i].lx = "{"}
    IN  IF at = {} THEN 0 ELSE SetMin(at)

\* json_text.rfind('}') + 1: the position of the last brace, 0 if none
rfind_rbrace(text) ==
    LET at == {i \in DOMAIN text : text[i].lx = "}"}
    IN  IF at = {} THEN 0 ELSE SetMax(at)

\* json_text[start_idx:end_idx] when start_idx != -1 and end_idx > start_idx
extract_object(text) ==
    LET start == find_lbrace(text)
        end == rfind_rbrace(text)
    IN  IF start # 0 /\ end > start - 1
        THEN SubSeq(text, start, end)
        ELSE text

RECURSIVE dict_of(_, _, _)
\* the dict of the members of an object, a repeated key keeping its place
dict_of(members, i, d) ==
    IF i > Len(members) THEN d
    ELSE dict_of(members, i + 1, dict_set(d, members[i].k, members[i].v))

\* json.loads: ok is FALSE for json.JSONDecodeError; an object gives a dict
json_loads(text) ==
    LET toks == SelectSeq(text, LAMBDA x : x.lx # "ws")
        n == Len(toks)
    IN  IF n = 1 /\ toks[1].lx = "value"
        THEN [ok |-> TRUE, isdict |-> FALSE, d |-> <<>>, v |-> toks[1].v]
        ELSE IF /\ n >= 2
                /\ toks[1].lx = "{"
                /\ toks[n].lx = "}"
                /\ \A i \in 2..(n - 1) : toks[i].lx = "member"
             THEN [ok |-> TRUE, isdict |-> TRUE,
                   d |-> dict_of(SubSeq(toks, 2, n - 1), 1, <<>>), v |-> PyNone]
             ELSE [ok |-> FALSE, isdict |-> FALSE, d |-> <<>>, v |-> PyNone]

\* if key not in json_data: [] ; elif not a list: [str(json_data[key])]
ensure_key(json_data, key) ==
    IF ~dict_has(json_data, key)
    THEN dict_set(json_data, key, PyList(<<>>))
    ELSE IF dict_get(json_data, key).t # "list"
         THEN dict_set(json_data, key,
                       PyList(<<PyStr(py_str(dict_get(json_data, key)))>>))
         ELSE json_data

RECURSIVE ensure_keys(_, _)
\* for key in required_keys, from index i on
ensure_keys(json_data, i) ==
    IF i > Len(required_keys) THEN json_data
    ELSE ensure_keys(ensure_key(json_data, required_keys[i]), i + 1)

\* {k: v for k, v in json_data.items() if k in required_keys}
cleaned_data(json_data) ==
    SelectSeq(json_data, LAMBDA kv : kv[1] \in Range(required_keys))

\* if not cleaned_data.get(k): cleaned_data[k] = ["Add relevant details here"]
fill_empty(cleaned, k) ==
    IF ~dict_has(cleaned, k) \/ dict_get(cleaned, k).items = <<>>
    THEN dict_set(cleaned, k, StrList(<<Placeholder>>))
    ELSE cleaned

RECURSIVE fill_empties(_, _)
\* for k in required_keys, from index i on
fill_empties(cleaned, i) ==
    IF i > Len(required_keys) THEN cleaned
    ELSE fill_empties(fill_empty(cleaned, required_keys[i]), i + 1)

\* the model handle: None, a callable that raises, or one that returns result
NoModel == [kind |-> "none", result |-> <<>>]

RaisingModel == [kind |-> "raises", result |-> <<>>]

ReturningModel(result) == [kind |-> "returns", result |-> result]

\* result[0].get('generated_text') or result[0].get('summary_text')
\*     or str(result[0])
first_text(first) ==
    IF dict_has(first, "generated_text") /\ dict_get(first, "generated_text") # <<>>
    THEN dict_get(first, "generated_text")
    ELSE IF dict_has(first, "summary_text") /\ dict_get(first, "summary_text") # <<>>
         THEN dict_get(first, "summary_text")
         ELSE IF first = <<>> THEN <<LBrace, RBrace>>
              ELSE <<LBrace, Chatter, RBrace>>

NoText == <<>>

Repeat(e, n) == [i \in 1..n |-> e]

\* the try block: exc names the exception raised ("" when it returns text),
\* calls counts the invocations of the model handle
try_model(generator) ==
    IF generator.kind = "none"
    THEN [exc |-> "TypeError", text |-> NoText, calls |-> 0]
    ELSE IF generator.kind = "raises"
    THEN [exc |-> "RuntimeError", text |-> NoText, calls |-> 1]
    ELSE IF generator.result = <<>>
    THEN [exc |-> "IndexError", text |-> NoText, calls |-> 1]
    ELSE LET json_text == extract_object(strip(first_text(generator.result[1])))
             parsed == json_loads(json_text)
         IN  IF ~parsed.ok
             THEN [exc |-> "JSONDecodeError", text |-> NoText, calls |-> 1]
             ELSE IF ~parsed.isdict
             THEN [exc |-> "TypeError", text |-> NoText, calls |-> 1]
             ELSE [exc |-> "",
                   text |-> json_dumps(fill_empties(
                                cleaned_data(ensure_keys(parsed.d, 1)), 1)),
                   calls |-> 1]

\* the subclasses of Exception: what "except Exception" catches
ExceptionClasses ==
    {"TypeError", "RuntimeError", "IndexError", "JSONDecodeError",
     "AttributeError", "OSError"}

\* handler_catches for "except json.JSONDecodeError"
handler_catches_json_only(exc) == exc = "JSONDecodeError"

handler_catches(exc) == exc \in ExceptionClasses

\* def generate_improvement_json(generator, resume_text, job_description):
\* the text returned or the exception left to the caller, whether the
\* rule-based generator ran, and the invocations of the model handle
generate_improvement_json(generator, resume_text, job_description) ==
    LET attempt == try_model(generator)
    IN  IF attempt.exc = ""
        THEN [raised |-> "", text |-> attempt.text,
              fallback |-> FALSE, calls |-> attempt.calls]
        ELSE IF handler_catches(attempt.exc)
             THEN [raised |-> "",
                   text |-> main_fallback(resume_text, job_description),
                   fallback |-> TRUE, calls |-> attempt.calls]
             ELSE [raised |-> attempt.exc, text |-> NoText,
                   fallback |-> FALSE, calls |-> attempt.calls]

----------------------------------------------------------------------------
(* Input texts *)

ResumePieces ==
    << <<"J","a","v","a">>,
       <<"S","c","r","i","p","t">>,
       <<" ","b","u","i","l","t"," ","S","Q","L"," ","f","o","r"," ","2"," ","y","e","a","r","s">>,
       <<" ","c","u","t"," ","3","0","%">>,
       <<" ","3","X">> >>

JdPieces ==
    << <<"j","a","v","a">>,
       <<"s","c","r","i","p","t">>,
       <<"_">>,
       <<" ","v","u","e"," ","r","u","s","t"," ","n","o","d","e"," ","s","q","l"," ","a","w","s"," ","e","t","l"," ","g","i","t"," ","a","p","i"," ","g","c","p">>,
       <<" ","t","h","e"," ","o","p","s"," ","d","e","v"," ","w","e","b"," ","d","e","v"," ","o","p","s"," ","a","p","p"," ","j","o","b"," ","n","e","t"," ","l","a","b"," ","k","e","y"," ","m","a","p"," ","r","u","n"," ","d","e","v"," ","c","+","+"," ","c","i","/","c","d">> >>

\* sequences of at most n distinct piece indexes
PieceSeqs(pieces, n) ==
    {idx \in UNION {[1..k -> DOMAIN pieces] : k \in 0..n} :
        \A a, b \in DOMAIN idx : a # b => idx[a] # idx[b]}

RECURSIVE Concat(_, _)
Concat(pieces, idx) ==
    IF idx = <<>> THEN <<>>
    ELSE pieces[idx[1]] \o Concat(pieces, Tail(idx))

\* the texts built from at most n pieces
Texts(pieces, n) == {Concat(pieces, idx) : idx \in PieceSeqs(pieces, n)}

\* the pairs <<resume text, job description>> built from at most n pieces
TextPairs(rpieces, jpieces, n) ==
    UNION {{<<Concat(rpieces, rp), Concat(jpieces, jp)>> :
               jp \in PieceSeqs(jpieces, n - Len(rp))} :
           rp \in PieceSeqs(rpieces, n)}

\* the pieces of the texts given to the adapter and to the front ends
FrontResumePieces == SubSeq(ResumePieces, 3, 5)

FrontJdPieces == <<JdPieces[1], JdPieces[4]>>

----------------------------------------------------------------------------
(* Outputs of the model backend *)

PyNum == [t |-> "num", items |-> <<>>, s |-> <<"7">>]

PyDict == [t |-> "dict", items |-> <<>>, s |-> <<"{\"a\":1}">>]

\* the values a model gives to a key; Absent is the key left out
Absent == [t |-> "absent", items |-> <<>>, s |-> <<>>]

ModelValues ==
    { Absent,
      PyList(<<>>),
      StrList(<<Line("Kafka"), Line("Go")>>),
      PyList(<<PyNum>>),
      PyList(<<PyStr(Line("Kafka")), PyNone>>),
      PyStr(Line("Kafka, Go")),
      PyStr(<<>>),
      PyNum,
      PyNone,
      PyDict }

MemberIf(k, v) == IF v = Absent THEN <<>> ELSE <<Member(k, v)>>

\* the members of an object: an optional unrecognised key, missing_skills
\* with value v, and the seven other keys with value rest
Members(extra, v, rest) ==
    (IF extra THEN <<Member("confidence", PyNum)>> ELSE <<>>)
        \o MemberIf("ats_optimization", rest)
        \o MemberIf("missing_skills", v)
        \o MemberIf("skills_to_strengthen", rest)
        \o MemberIf("keywords_to_add", rest)
        \o MemberIf("experience_improvements", rest)
        \o MemberIf("project_improvements", rest)
        \o MemberIf("resume_structure_improvements", rest)
        \o MemberIf("language_and_wording", rest)

ObjectText(extra, v, rest) == <<LBrace>> \o Members(extra, v, rest) \o <<RBrace>>

FullObject == ObjectText(FALSE, StrList(<<Line("Kafka")>>), StrList(<<Line("Be specific")>>))

ObjectTexts ==
    {ObjectText(extra, v, rest) :
        extra \in BOOLEAN, v \in ModelValues,
        rest \in {Absent, StrList(<<Line("Be specific")>>)}}

\* what surrounds or replaces the object in the text of a model
Bodies ==
    { FullObject,
      ObjectText(FALSE, Absent, Absent),
      <<Value(StrList(<<Line("Kafka")>>))>>,
      <<Value(PyNum)>>,
      <<LBrace>> \o Members(FALSE, StrList(<<Line("Kafka")>>), Absent),
      FullObject \o FullObject,
      <<>> }

Before == {<<>>, <<Chatter>>, <<WhiteSpace>>, <<Chatter, RBrace>>}

After == {<<>>, <<Chatter>>, <<WhiteSpace>>, <<Chatter, RBrace>>, <<LBrace>>}

RawTexts ==
    ObjectTexts \cup {pre \o body \o post :
                         pre \in Before, body \in Bodies, post \in After}

\* the model handles: None, raising, and returning a result list
Generators ==
    { NoModel, RaisingModel,
      ReturningModel(<<>>),
      ReturningModel(<< <<>> >>),
      ReturningModel(<< << <<"summary_text", FullObject>> >> >>),
      ReturningModel(<< << <<"generated_text", <<>> >>,
                           <<"summary_text", FullObject>> >> >>) }
    \cup {ReturningModel(<< << <<"generated_text", t>> >> >>) : t \in RawTexts}


----------------------------------------------------------------------------
(* Files and document text extraction *)

\* a document: its name, whether the path exists, how reading it fails
\* ("no": it does not, "open": at once, "late": after some text was read)
\* and the text it holds
File(name, exists, damaged, content) ==
    [name |-> name, exists |-> exists, damaged |-> damaged, content |-> content]

EmptyText == <<>>

\* path.suffix: from the last dot of the name, if it is neither first nor last
suffix(name) ==
    LET dots == {i \in DOMAIN name : name[i] = "."}
    IN  IF dots # {} /\ SetMax(dots) > 1 /\ SetMax(dots) < Len(name)
        THEN SubSeq(name, SetMax(dots), Len(name))
        ELSE EmptyText

\* str.lstrip('.')
lstrip_dots(s) ==
    LET kept == {i \in DOMAIN s : s[i] # "."}
    IN  IF kept = {} THEN EmptyText ELSE SubSeq(s, SetMin(kept), Len(s))

ExtPdf == <<"p","d","f">>

ExtDocx == <<"d","o","c","x">>

ExtTxt == <<"t","x","t">>

ImageExts ==
    { <<"p","n","g">>, <<"j","p","g">>, <<"j","p","e","g">>,
      <<"b","m","p">>, <<"t","i","f","f">> }

\* cli_critic.extract_text_from_pdf: "" when anything raises
extract_text_from_pdf(file) ==
    IF file.damaged # "no" THEN EmptyText ELSE file.content

\* cli_critic.extract_text_from_docx
extract_text_from_docx(file) ==
    IF file.damaged # "no" THEN EmptyText ELSE file.content

\* cli_critic.extract_text_from_txt
extract_text_from_txt(file) ==
    IF file.damaged # "no" THEN EmptyText ELSE file.content

\* cli_critic.extract_text_from_image
extract_text_from_image(file) ==
    IF file.damaged # "no" THEN EmptyText ELSE file.content

\* cli_critic.extract_resume_text
extract_resume_text(file) ==
    LET ext == lstrip_dots(lower(suffix(file.name)))
    IN  IF ext = ExtPdf THEN extract_text_from_pdf(file)
        ELSE IF ext = ExtDocx THEN extract_text_from_docx(file)
        ELSE IF ext \in ImageExts THEN extract_text_from_image(file)
        ELSE IF ext = ExtTxt THEN extract_text_from_txt(file)
        ELSE EmptyText

\* main.extract_text_from_pdf: the text read before the exception is returned
main_extract_text_from_pdf(file) ==
    IF file.damaged = "open" THEN EmptyText ELSE file.content

\* main.extract_text_from_docx
main_extract_text_from_docx(file) ==
    IF file.damaged # "no" THEN EmptyText ELSE file.content

\* main.extract_text_from_txt
main_extract_text_from_txt(file) ==
    IF file.damaged # "no" THEN EmptyText ELSE file.content

\* main.extract_text_from_image
main_extract_text_from_image(file) ==
    IF file.damaged # "no" THEN EmptyText ELSE file.content

\* uploaded_file.name.split(".")[-1]
after_last_dot(name) ==
    LET dots == {i \in DOMAIN name : name[i] = "."}
    IN  IF dots = {} THEN name ELSE SubSeq(name, SetMax(dots) + 1, Len(name))

\* main.extract_resume_text
main_extract_resume_text(uploaded_file) ==
    LET file_extension == lower(after_last_dot(uploaded_file.name))
    IN  IF file_extension = ExtPdf THEN main_extract_text_from_pdf(uploaded_file)
        ELSE IF file_extension = ExtDocx THEN main_extract_text_from_docx(uploaded_file)
        ELSE IF file_extension = ExtTxt THEN main_extract_text_from_txt(uploaded_file)
        ELSE IF file_extension \in ImageExts THEN main_extract_text_from_image(uploaded_file)
        ELSE EmptyText

----------------------------------------------------------------------------
(* cli_critic.main *)

\* json.dumps({'error': message})
error_payload(message) == json_dumps(<< <<"error", PyStr(Line(message))>> >>)

\* the job description argument: --job-text with its text, or --job-file
\* with its path (possibly the empty string) and the file it names
JobText(text) ==
    [opt |-> "job_text", path_empty |-> FALSE, exists |-> FALSE,
     readable |-> FALSE, text |-> text]

JobFile(path_empty, exists, readable, text) ==
    [opt |-> "job_file", path_empty |-> path_empty, exists |-> exists,
     readable |-> readable, text |-> text]

\* the outcome of a run: how it ended ("returned" or the exception that
\* left it), what was shown, what was done in order, and the texts used
Outcome(status, shown, events, rtext, jtext) ==
    [status |-> status, shown |-> shown, events |-> events,
     resume_text |-> rtext, job_description |-> jtext]

\* output = fallback_generator(resume_text, job_description); print(output)
cli_generate(rtext, jtext) ==
    Outcome("returned", <<fallback_generator(rtext, jtext)>>,
            <<"extract", "generate", "print">>, rtext, jtext)

\* def main(), after the arguments are parsed
main(resume, job) ==
    IF ~resume.exists
    THEN Outcome("returned", <<error_payload("Resume file not found")>>,
                 <<"print">>, EmptyText, EmptyText)
    ELSE LET rtext == extract_resume_text(resume)
         IN  IF job.opt = "job_file" /\ ~job.path_empty
             THEN IF ~job.exists
                  THEN Outcome("returned",
                               <<error_payload("Job description file not found")>>,
                               <<"extract", "print">>, rtext, EmptyText)
                  ELSE IF ~job.readable
                       THEN Outcome("OSError", <<>>, <<"extract">>, rtext, EmptyText)
                       ELSE cli_generate(rtext, job.text)
             ELSE IF job.opt = "job_file"
                  THEN Outcome("AttributeError", <<>>, <<"extract">>, rtext, EmptyText)
                  ELSE cli_generate(rtext, job.text)

----------------------------------------------------------------------------
(* main.py: the Analyze handler of the page *)

\* display_json_improvements: item.strip() raises on an item that is no str
display_raises(json_text) ==
    LET parsed == json_loads(json_text)
    IN  /\ parsed.ok /\ parsed.isdict
        /\ \E i \in DOMAIN parsed.d :
               /\ parsed.d[i][1] \in Range(required_keys)
               /\ parsed.d[i][2].t = "list"
               /\ \E n \in DOMAIN parsed.d[i][2].items :
                      parsed.d[i][2].items[n].t # "str"

\* if st.button("Analyze"): ... with the widgets' values
analyze(resume_file, jtext, use_fallback, loaded) ==
    LET rtext == main_extract_resume_text(resume_file)
        handle == IF use_fallback THEN NoModel ELSE loaded
        r == generate_improvement_json(handle, rtext, jtext)
        done == <<"extract">> \o Repeat("invoke_model", r.calls)
                    \o (IF r.fallback THEN <<"generate">> ELSE <<>>)
    IN  IF rtext = EmptyText
        THEN Outcome("returned", <<>>, <<"extract">>, rtext, jtext)
        ELSE IF r.raised # ""
        THEN Outcome(r.raised, <<>>, done, rtext, jtext)
        ELSE IF display_raises(r.text)
        THEN Outcome("AttributeError", <<>>, done, rtext, jtext)
        ELSE Outcome("returned", <<r.text>>, Append(done, "display"), rtext, jtext)
----------------------------------------------------------------------------
(* Inputs of the front ends *)

FrontResumeTexts == Texts(FrontResumePieces, MaxFrontPieces)

FrontJdTexts == Texts(FrontJdPieces, MaxFrontPieces)

CliNames ==
    { <<"a",".","P","D","F">>, <<"a",".","d","o","c","x">>,
      <<"a",".","p","n","g">>, <<"a",".","t","x","t">>,
      <<"a",".","x","y","z">>, <<"a">> }

PageNames ==
    { <<"a",".","P","D","F">>, <<"a",".","d","o","c","x">>,
      <<"a",".","p","n","g">>, <<"a",".","t","x","t">> }

\* a path that does not exist, documents that cannot be read, documents
\* that hold a text, and PDF documents that fail after their text was read
CliFiles ==
    {File(<<"a",".","t","x","t">>, FALSE, "no", EmptyText)}
        \cup {File(n, TRUE, "open", EmptyText) : n \in CliNames}
        \cup {File(n, TRUE, "no", c) : n \in CliNames, c \in FrontResumeTexts}
        \cup {File(<<"a",".","P","D","F">>, TRUE, "late", c) : c \in FrontResumeTexts}

CliJobs ==
    {JobText(t) : t \in FrontJdTexts}
        \cup {JobFile(TRUE, FALSE, FALSE, EmptyText),
              JobFile(FALSE, FALSE, FALSE, EmptyText),
              JobFile(FALSE, TRUE, FALSE, EmptyText)}
        \cup {JobFile(FALSE, TRUE, TRUE, t) : t \in FrontJdTexts}

PageFiles ==
    {File(n, TRUE, "open", EmptyText) : n \in PageNames}
        \cup {File(n, TRUE, "no", c) : n \in PageNames, c \in FrontResumeTexts}
        \cup {File(<<"a",".","P","D","F">>, TRUE, "late", c) : c \in FrontResumeTexts}

\* what load_model() returns: None when loading fails, or a pipeline
PageModels ==
    { NoModel, RaisingModel,
      ReturningModel(<< << <<"generated_text", FullObject>> >> >>),
      ReturningModel(<< << <<"generated_text",
          ObjectText(FALSE, PyList(<<PyNum>>), Absent)>> >> >>) }

Inputs(front, resume_file, job, use_fallback, loaded) ==
    [front |-> front, resume_file |-> resume_file, job |-> job,
     use_fallback |-> use_fallback, loaded |-> loaded]

NoInputs ==
    Inputs("none", File(EmptyText, FALSE, "no", EmptyText), JobText(EmptyText),
           TRUE, NoModel)

----------------------------------------------------------------------------
(* State *)

VARIABLES
    resume_text,        \* the resume text given to the generator
    job_description,    \* the job description given to the generator
    generator,          \* the model handle given to the adapter
    inputs,             \* the arguments of the CLI or the widgets of the page
    pc,                 \* the position of the run
    output,             \* the JSON text returned by the generator
    shown,              \* the documents printed or displayed
    events              \* what the run did, in order

vars == <<resume_text, job_description, generator, inputs, pc, output, shown, events>>

----------------------------------------------------------------------------
(* The rule-based generator called on a pair of texts *)

InitGen ==
    /\ \E pair \in TextPairs(ResumePieces, JdPieces, MaxPieces) :
           /\ resume_text = pair[1]
           /\ job_description = pair[2]
    /\ generator = NoModel
    /\ inputs = NoInputs
    /\ pc = "call"
    /\ output = NoText
    /\ shown = <<>>
    /\ events = <<>>

\* cli_critic.fallback_generator(resume_text, job_description)
CallFallbackGenerator ==
    /\ pc = "call"
    /\ output' = fallback_generator(resume_text, job_description)
    /\ pc' = "cli_done"
    /\ events' = Append(events, "generate")
    /\ UNCHANGED <<resume_text, job_description, generator, inputs, shown>>

\* _fallback(resume_text, job_description) of main.py
CallMainFallback ==
    /\ pc = "call"
    /\ output' = main_fallback(resume_text, job_description)
    /\ pc' = "main_done"
    /\ events' = Append(events, "generate")
    /\ UNCHANGED <<resume_text, job_description, generator, inputs, shown>>

NextGen == CallFallbackGenerator \/ CallMainFallback

SpecGen == InitGen /\ [][NextGen]_vars

\* resume fragments with each alternative of the metrics pattern, and
\* fragments that differ from one by letter case or by the character
\* after the "$"
MetricPieces ==
    << <<" ","c","u","t"," ","3","0","%">>,
       <<" ","$","5">>,
       <<" ","2","x">>,
       <<" ","9"," ","u","s","e","r","s">>,
       <<" ","4"," ","c","u","s","t","o","m","e","r","s">>,
       <<" ","7"," ","t","r","a","n","s","a","c","t","i","o","n","s">>,
       <<" ","3","X">>,
       <<" ","1","0"," ","U","s","e","r","s">>,
       <<" ","$","x">>,
       <<" ","l","e","d">> >>

\* the generator called on a resume made of these fragments
InitMetrics ==
    /\ resume_text \in Texts(MetricPieces, MaxMetricPieces)
    /\ job_description = EmptyText
    /\ generator = NoModel
    /\ inputs = NoInputs
    /\ pc = "call"
    /\ output = NoText
    /\ shown = <<>>
    /\ events = <<>>

SpecMetrics == InitMetrics /\ [][NextGen]_vars

----------------------------------------------------------------------------
(* The adapter called with a model handle *)

InitAdapter ==
    /\ \E pair \in TextPairs(FrontResumePieces, FrontJdPieces, MaxAdapterPieces) :
           /\ resume_text = pair[1]
           /\ job_description = pair[2]
    /\ generator \in Generators
    /\ inputs = NoInputs
    /\ pc = "call"
    /\ output = NoText
    /\ shown = <<>>
    /\ events = <<>>

\* generate_improvement_json(generator, resume_text, job_description)
CallGenerateImprovementJson ==
    /\ pc = "call"
    /\ LET r == generate_improvement_json(generator, resume_text, job_description)
       IN  /\ output' = r.text
           /\ pc' = IF r.raised = "" THEN "returned" ELSE "raised"
           /\ events' = events \o Repeat("invoke_model", r.calls)
                               \o (IF r.fallback THEN <<"generate">> ELSE <<>>)
    /\ UNCHANGED <<resume_text, job_description, generator, inputs, shown>>

NextAdapter == CallGenerateImprovementJson

SpecAdapter == InitAdapter /\ [][NextAdapter]_vars

----------------------------------------------------------------------------
(* The front ends: a run of the CLI, a click on Analyze *)

InitFront ==
    /\ \/ \E f \in CliFiles, j \in CliJobs :
              /\ inputs = Inputs("cli", f, j, TRUE, NoModel)
              /\ pc = "cli"
       \/ \E f \in PageFiles, t \in FrontJdTexts \ {EmptyText} :
              /\ \/ \E m \in PageModels : inputs = Inputs("page", f, JobText(t), FALSE, m)
                 \/ inputs = Inputs("page", f, JobText(t), TRUE, NoModel)
              /\ pc = "page"
    /\ resume_text = EmptyText
    /\ job_description = EmptyText
    /\ generator = NoModel
    /\ output = NoText
    /\ shown = <<>>
    /\ events = <<>>

Finish(o) ==
    /\ pc' = IF o.status = "returned" THEN "exit" ELSE "crashed"
    /\ resume_text' = o.resume_text
    /\ job_description' = o.job_description
    /\ shown' = o.shown
    /\ output' = IF o.shown = <<>> THEN NoText ELSE o.shown[1]
    /\ events' = o.events

\* python cli_critic.py --resume ... (--job-file ... | --job-text ...)
RunMain ==
    /\ pc = "cli"
    /\ Finish(main(inputs.resume_file, inputs.job))
    /\ UNCHANGED <<generator, inputs>>

\* the Analyze button of the page is clicked
ClickAnalyze ==
    /\ pc = "page"
    /\ Finish(analyze(inputs.resume_file, inputs.job.text,
                      inputs.use_fallback, inputs.loaded))
    /\ generator' = IF inputs.use_fallback THEN NoModel ELSE inputs.loaded
    /\ UNCHANGED inputs

NextFront == RunMain \/ ClickAnalyze

SpecFront == InitFront /\ [][NextFront]_vars

----------------------------------------------------------------------------
(* The extraction functions of the CLI and the file handles they hold *)

\* with open(path, "rb") as f: the handle is closed when the block is left,
\* at its end or by an exception
pdf_handles(opened) == IF opened THEN <<"open", "close">> ELSE <<>>

\* path.read_bytes() opens, reads and closes within the call; the BytesIO
\* given to Document is memory, not a file
docx_handles(opened) == IF opened THEN <<"open", "close">> ELSE <<>>

\* path.read_text(...) opens, reads and closes within the call
txt_handles(opened) == IF opened THEN <<"open", "close">> ELSE <<>>

\* img = Image.open(path) with neither a with block nor a close(): the file
\* is closed before the function returns only if the imaging library closes
\* it itself
image_handles(opened, library_closes) ==
    IF ~opened THEN <<>>
    ELSE IF library_closes THEN <<"open", "close">>
    ELSE <<"open">>

\* ext = path.suffix.lower().lstrip('.')
ext_of(file) == lstrip_dots(lower(suffix(file.name)))

\* whether the file gets opened: never when it does not exist, always when
\* its text is read, either way when it cannot be read
CanOpen(file) ==
    IF ~file.exists THEN {FALSE}
    ELSE IF file.damaged = "open" THEN BOOLEAN
    ELSE {TRUE}

\* what the imaging library does with the file it opened: it closes it once
\* the pixels of a single-frame image are loaded and when it does not
\* identify the format; it leaves it open when decoding fails midway and
\* when the image has several frames, which a TIFF may have
LibraryCloses(file) ==
    IF file.damaged # "no" \/ ext_of(file) = <<"t","i","f","f">> THEN BOOLEAN
    ELSE {TRUE}

ExtractNames ==
    { <<"a",".","P","D","F">>,
      <<"a",".","d","o","c","x">>,
      <<"a",".","t","x","t">>,
      <<"a",".","p","n","g">>,
      <<"a",".","j","p","g">>,
      <<"a",".","J","P","E","G">>,
      <<"a",".","b","m","p">>,
      <<"a",".","t","i","f","f">>,
      <<"a",".","x","y","z">>,
      <<"a">> }

ExtractFiles ==
    {File(n, FALSE, "no", EmptyText) : n \in ExtractNames}
        \cup {File(n, TRUE, "open", EmptyText) : n \in ExtractNames}
        \cup {File(n, TRUE, "no", c) : n \in ExtractNames, c \in FrontResumeTexts}
        \cup {File(<<"a",".","P","D","F">>, TRUE, "late", c) : c \in FrontResumeTexts}

InitExtract ==
    /\ \E f \in ExtractFiles :
           inputs = Inputs("extract", f, JobText(EmptyText), TRUE, NoModel)
    /\ pc = "extract"
    /\ resume_text = EmptyText
    /\ job_description = EmptyText
    /\ generator = NoModel
    /\ output = NoText
    /\ shown = <<>>
    /\ events = <<>>

\* the function returns text, having done these handle operations
Return(text, handles) ==
    /\ pc' = "extracted"
    /\ resume_text' = text
    /\ events' = handles
    /\ UNCHANGED <<job_description, generator, inputs, output, shown>>

\* if ext == 'pdf': return extract_text_from_pdf(path)
CallExtractTextFromPdf ==
    /\ pc = "extract"
    /\ ext_of(inputs.resume_file) = ExtPdf
    /\ \E opened \in CanOpen(inputs.resume_file) :
           Return(extract_text_from_pdf(inputs.resume_file), pdf_handles(opened))

\* if ext == 'docx': return extract_text_from_docx(path)
CallExtractTextFromDocx ==
    /\ pc = "extract"
    /\ ext_of(inputs.resume_file) = ExtDocx
    /\ \E opened \in CanOpen(inputs.resume_file) :
           Return(extract_text_from_docx(inputs.resume_file), docx_handles(opened))

\* if ext in ('png', 'jpg', 'jpeg', 'bmp', 'tiff'): return extract_text_from_image(path)
CallExtractTextFromImage ==
    /\ pc = "extract"
    /\ ext_of(inputs.resume_file) \in ImageExts
    /\ \E opened \in CanOpen(inputs.resume_file),
          library_closes \in LibraryCloses(inputs.resume_file) :
           Return(extract_text_from_image(inputs.resume_file),
                  image_handles(opened, library_closes))

\* if ext == 'txt': return extract_text_from_txt(path)
CallExtractTextFromTxt ==
    /\ pc = "extract"
    /\ ext_of(inputs.resume_file) = ExtTxt
    /\ \E opened \in CanOpen(inputs.resume_file) :
           Return(extract_text_from_txt(inputs.resume_file), txt_handles(opened))

\* return "" for any other extension
ReturnUnsupported ==
    /\ pc = "extract"
    /\ ext_of(inputs.resume_file) \notin {ExtPdf, ExtDocx, ExtTxt} \cup ImageExts
    /\ Return(EmptyText, <<>>)

NextExtract ==
    \/ CallExtractTextFromPdf
    \/ CallExtractTextFromDocx
    \/ CallExtractTextFromImage
    \/ CallExtractTextFromTxt
    \/ ReturnUnsupported

SpecExtract == InitExtract /\ [][NextExtract]_vars

----------------------------------------------------------------------------
(* Reading a JSON text back *)

IsObject(text) ==
    /\ Len(text) >= 2
    /\ text[1] = LBrace
    /\ text[Len(text)] = RBrace
    /\ \A i \in 2..(Len(text) - 1) : text[i].lx = "member"

KeysOf(text) == [i \in 1..(Len(text) - 2) |-> text[i + 1].k]

HasKey(text, key) == \E i \in DOMAIN text : text[i].lx = "member" /\ text[i].k = key

ValueOf(text, key) ==
    text[CHOOSE i \in DOMAIN text : text[i].lx = "member" /\ text[i].k = key].v

\* the strs of the list under a key
StrsOf(text, key) ==
    [i \in DOMAIN ValueOf(text, key).items |-> ValueOf(text, key).items[i].s]

\* the eight required keys and no other, each once
HasExactlyRequiredKeys(text) ==
    /\ IsObject(text)
    /\ Len(KeysOf(text)) = Len(required_keys)
    /\ Range(KeysOf(text)) = Range(required_keys)

\* every value is a non-empty list
ValuesAreNonEmptyLists(text) ==
    \A i \in 2..(Len(text) - 1) :
        text[i].v.t = "list" /\ text[i].v.items # <<>>

\* every item of every list is a str
ItemsAreStrs(text) ==
    \A i \in 2..(Len(text) - 1) :
        \A n \in DOMAIN text[i].v.items : text[i].v.items[n].t = "str"

WellFormedRecord(text) ==
    /\ HasExactlyRequiredKeys(text)
    /\ ValuesAreNonEmptyLists(text)
    /\ ItemsAreStrs(text)

GeneratorReturned == pc \in {"cli_done", "main_done"}

Count(seq, e) == Cardinality({i \in DOMAIN seq : seq[i] = e})

\* the taxonomy positions of the keywords found in the job description and
\* not in the resume
Gap ==
    {i \in DOMAIN tech_keywords :
        /\ re_search_word(tech_keywords[i], lower(job_description))
        /\ ~re_search_word(tech_keywords[i], lower(resume_text))}

----------------------------------------------------------------------------
(* Claims *)

\* C1: for every pair of input texts, empty ones included, both copies of
\* the rule-based generator return an object with exactly the eight required
\* keys, every value a non-empty list of strs.
C1_EightKeysNonEmpty == GeneratorReturned => WellFormedRecord(output)

C1_Witness ==
    /\ pc = "main_done"
    /\ resume_text = EmptyText
    /\ job_description # EmptyText
    /\ WellFormedRecord(output)

\* C2: when some taxonomy keyword matches the job description and not the
\* resume, missing_skills is the first at most 8 of them in taxonomy order;
\* missing_skills never holds a taxonomy keyword that matches the resume.
C2_MissingSkills ==
    pc = "cli_done" =>
        LET L == StrsOf(output, "missing_skills")
        IN  /\ Gap # {} =>
                /\ Len(L) = Min(MaxMissing, Cardinality(Gap))
                /\ \A i \in Gap :
                       LET rank == Cardinality({j \in Gap : j <= i})
                       IN  rank <= MaxMissing => L[rank] = tech_keywords[i]
            /\ \A n \in DOMAIN L :
                   ~(/\ L[n] \in Range(tech_keywords)
                     /\ re_search_word(L[n], lower(resume_text)))

C2_Witness ==
    /\ pc = "cli_done"
    /\ Cardinality(Gap) > MaxMissing
    /\ \E i \in DOMAIN tech_keywords :
           /\ re_search_word(tech_keywords[i], lower(job_description))
           /\ re_search_word(tech_keywords[i], lower(resume_text))
    /\ Len(StrsOf(output, "missing_skills")) = MaxMissing

\* C3: keywords_to_add holds no taxonomy keyword, those cut from
\* missing_skills by the cap included, and has at most 8 entries.
C3_KeywordsToAdd ==
    pc = "cli_done" =>
        LET K == StrsOf(output, "keywords_to_add")
        IN  /\ Len(K) <= MaxKeywords
            /\ \A n \in DOMAIN K : K[n] \notin Range(tech_keywords)

C3_Witness ==
    /\ pc = "cli_done"
    /\ Cardinality(Gap) > MaxMissing
    /\ Len(StrsOf(output, "keywords_to_add")) = MaxKeywords
    /\ Len(findall_tokens(lower(job_description))) > MaxKeywords + Cardinality(Gap)

\* C4: when the model handle is None or its invocation raises, the adapter
\* returns the JSON text that cli_critic.fallback_generator returns for the
\* same texts, and the model is not invoked a second time.
C4_FallbackOnRaise ==
    (pc # "call" /\ generator.kind \in {"none", "raises"}) =>
        /\ pc = "returned"
        /\ output = fallback_generator(resume_text, job_description)
        /\ Count(events, "invoke_model") <= 1

C4_Witness ==
    /\ pc = "returned"
    /\ generator = RaisingModel
    /\ resume_text # EmptyText
    /\ Count(events, "invoke_model") = 1
    /\ Count(events, "generate") = 1

\* the object the adapter parsed from the text of the model
ParsedFromModel ==
    json_loads(extract_object(strip(first_text(generator.result[1]))))

ParsedAnObject ==
    /\ generator.kind = "returns"
    /\ generator.result # <<>>
    /\ ParsedFromModel.ok
    /\ ParsedFromModel.isdict

\* C5: for every model output parsed successfully, the returned record has
\* the eight required keys and no other, every value a non-empty list of
\* strs: a missing key or empty list is the placeholder alone, a value that
\* is not a list is the one-element list of its str form.
C5_NormalisedRecord ==
    (pc = "returned" /\ ParsedAnObject) =>
        /\ WellFormedRecord(output)
        /\ \A n \in DOMAIN required_keys :
               LET key == required_keys[n]
                   d == ParsedFromModel.d
               IN  IF ~dict_has(d, key) \/ dict_get(d, key) = PyList(<<>>)
                   THEN StrsOf(output, key) = <<Placeholder>>
                   ELSE dict_get(d, key).t # "list" =>
                            StrsOf(output, key) = <<py_str(dict_get(d, key))>>

\* the failures of the model backend: no handle or a raising one, a result
\* that is not a list of dicts, a text that is not JSON, JSON that is not
\* an object
HardFailure ==
    \/ generator.kind \in {"none", "raises"}
    \/ generator.result = <<>>
    \/ ~ParsedFromModel.ok
    \/ ~ParsedFromModel.isdict

\* a JSON object that lacks some required key
MissingKeys ==
    /\ ParsedAnObject
    /\ \E n \in DOMAIN required_keys : ~dict_has(ParsedFromModel.d, required_keys[n])

FellBack ==
    /\ pc = "returned"
    /\ output = fallback_generator(resume_text, job_description)
    /\ Count(events, "generate") = 1

\* C6 as stated: every model-backend failure, JSON with required keys
\* missing included, falls back to the rule-based generator's record and
\* never raises.
C6_Original ==
    (pc # "call" /\ (HardFailure \/ MissingKeys)) => FellBack

\* C6 amended: an unavailable or raising backend, a malformed result,
\* invalid JSON and JSON that is not an object fall back to the rule-based
\* generator's record; a JSON object with required keys missing does not:
\* the rule-based generator does not run and each missing key holds the
\* placeholder alone; in no case does the adapter raise.
C6_FallbackOnFailure ==
    pc # "call" =>
        /\ pc = "returned"
        /\ HardFailure => FellBack
        /\ MissingKeys =>
               /\ Count(events, "generate") = 0
               /\ HasExactlyRequiredKeys(output)
               /\ \A n \in DOMAIN required_keys :
                      ~dict_has(ParsedFromModel.d, required_keys[n]) =>
                          StrsOf(output, required_keys[n]) = <<Placeholder>>

C6_Witness ==
    /\ pc = "returned"
    /\ MissingKeys
    /\ \E n \in DOMAIN required_keys : dict_has(ParsedFromModel.d, required_keys[n])
    /\ resume_text # EmptyText
    /\ output # fallback_generator(resume_text, job_description)

IsErrorPayload(text) ==
    text \in {error_payload("Resume file not found"),
              error_payload("Job description file not found")}

CliEnded == inputs.front = "cli" /\ pc \in {"exit", "crashed"}

\* C7: when the resume file or the --job-file file does not exist, the CLI
\* emits the error payload and halts before any text extraction and without
\* running the generator.
C7_HaltBeforeExtraction ==
    (/\ CliEnded
     /\ \/ ~inputs.resume_file.exists
        \/ (inputs.job.opt = "job_file" /\ ~inputs.job.path_empty /\ ~inputs.job.exists))
    => /\ Len(shown) = 1
       /\ IsErrorPayload(shown[1])
       /\ Count(events, "extract") = 0
       /\ Count(events, "generate") = 0

\* the resume document cannot be read or its format is not supported
ExtractionFails ==
    /\ inputs.resume_file.exists
    /\ \/ inputs.resume_file.damaged # "no"
       \/ lower(after_last_dot(inputs.resume_file.name))
              \notin ({ExtPdf, ExtDocx, ExtTxt} \cup ImageExts)

\* the job description reaches the generator
JobAvailable ==
    \/ inputs.front = "page"
    \/ inputs.job.opt = "job_text"
    \/ (~inputs.job.path_empty /\ inputs.job.exists /\ inputs.job.readable)

\* C8: in both front ends, when extraction fails or the format is not
\* supported the extractor yields the empty text without raising, and the
\* run still presents a fully formed eight-key record.
C8_ProceedsOnEmptyResume ==
    (pc \in {"exit", "crashed"} /\ ExtractionFails /\ JobAvailable) =>
        /\ pc = "exit"
        /\ resume_text = EmptyText
        /\ Len(shown) = 1
        /\ WellFormedRecord(shown[1])

\* C9: whatever the state of the resume file (missing, readable, corrupt) and
\* the source of the job description (--job-text, or a --job-file path that
\* is missing, readable, or existing but unreadable), the CLI terminates
\* normally having printed exactly one JSON document, an error payload or a
\* record.
C9_CliNeverFatal ==
    (CliEnded /\ ~(inputs.job.opt = "job_file" /\ inputs.job.path_empty)) =>
        /\ pc = "exit"
        /\ Len(shown) = 1
        /\ (IsErrorPayload(shown[1]) \/ WellFormedRecord(shown[1]))

\* C10: with an empty resume and an empty job description the generator
\* returns the advisory missing_skills line, the three default keywords,
\* and the "absent" branch of every conditional category.
C10_EmptyInputs ==
    (GeneratorReturned /\ resume_text = EmptyText /\ job_description = EmptyText) =>
        /\ StrsOf(output, "missing_skills")
               = <<Line("Review job posting for domain-specific skills not on resume")>>
        /\ StrsOf(output, "keywords_to_add") = DefaultKeywords
        /\ StrsOf(output, "skills_to_strengthen")
               = <<Line("Add proficiency levels and use-cases for existing skills")>>
        /\ StrsOf(output, "project_improvements")[1]
               = Line("Add a Projects section if applicable (GitHub, portfolio work)")
        /\ Len(StrsOf(output, "language_and_wording")) = 3
        /\ StrsOf(output, "language_and_wording")[3]
               = Line("Add metrics to action verbs (reduced X by Y%, increased Z)")

C10_Witness ==
    /\ pc = "cli_done"
    /\ resume_text = EmptyText
    /\ job_description = EmptyText
    /\ Len(StrsOf(output, "keywords_to_add")) = 3

\* the four lines experience_improvements is built from, in their order
ExperienceLines ==
    <<Line("Add quantified outcomes (%, revenue, time saved) to experience bullets"),
      Line("Highlight achievements from most recent roles that match job responsibilities"),
      Line("Include team size, reporting relationships, and scope of impact for major roles"),
      Line("Reorder bullets to prioritize items matching the job description")>>

\* C11: experience_improvements is the sub-list, in their relative order,
\* of the four lines quantify-outcomes, highlight-recent-achievements,
\* team-size and reorder-bullets: quantify is kept exactly when the resume
\* has no metric, highlight exactly when it mentions experience, team-size
\* always, and reorder exactly when fewer than three of the first three were
\* kept; so the list has two or three entries.
C11_ExperienceImprovements ==
    GeneratorReturned =>
        LET m == has_metrics(resume_text)
            e == has_experience(lower(resume_text))
            before == {i \in 1..3 : (i = 1 => ~m) /\ (i = 2 => e)}
            kept == before \cup (IF Cardinality(before) < 3 THEN {4} ELSE {})
            got == StrsOf(output, "experience_improvements")
        IN  /\ got = SelectSeq(ExperienceLines,
                               LAMBDA l : \E i \in kept : ExperienceLines[i] = l)
            /\ Len(got) \in {2, 3}

\* a resume with a metric and a mention of experience: quantify is dropped,
\* highlight is kept and, two lines having accumulated, reorder is appended
C11_Witness ==
    /\ pc = "cli_done"
    /\ has_metrics(resume_text)
    /\ has_experience(lower(resume_text))
    /\ StrsOf(output, "experience_improvements") = SubSeq(ExperienceLines, 2, 4)

\* a match of the metrics pattern, position by position
ContainsMetric(text) ==
    \E i \in DOMAIN text :
        \/ /\ text[i] \in Digits
           /\ \E tail \in {<<"%">>, <<"x">>} \cup
                            {<<" ">> \o u : u \in {<<"u","s","e","r","s">>,
                                                   <<"c","u","s","t","o","m","e","r","s">>,
                                                   <<"t","r","a","n","s","a","c","t","i","o","n","s">>}} :
                  /\ i + Len(tail) <= Len(text)
                  /\ SubSeq(text, i + 1, i + Len(tail)) = tail
        \/ /\ text[i] = "$"
           /\ i < Len(text)
           /\ text[i + 1] \in Digits

\* C12: a resume that contains a metric (a digit directly followed by "%"
\* or by "x", a "$" directly followed by a digit, or a digit followed by one
\* space and users, customers or transactions) gets only the two fixed
\* language_and_wording lines and no quantify-outcomes line in
\* experience_improvements; a resume without a metric gets both lines.
C12_MetricsSuppressAdvice ==
    GeneratorReturned =>
        LET wording == StrsOf(output, "language_and_wording")
            bullets == StrsOf(output, "experience_improvements")
            add_metrics == Line("Add metrics to action verbs (reduced X by Y%, increased Z)")
        IN  IF ContainsMetric(resume_text)
            THEN /\ Len(wording) = 2
                 /\ add_metrics \notin Range(wording)
                 /\ ExperienceLines[1] \notin Range(bullets)
            ELSE /\ Len(wording) = 3
                 /\ wording[3] = add_metrics
                 /\ bullets[1] = ExperienceLines[1]

\* a resume with the percentage "30%": both lines are withheld
C12_Witness ==
    /\ pc = "cli_done"
    /\ contains(resume_text, <<"3","0","%">>)
    /\ Len(StrsOf(output, "language_and_wording")) = 2
    /\ StrsOf(output, "experience_improvements")[1] # ExperienceLines[1]

\* the taxonomy keywords found in a job description, in the resume or not
Classified(jd_lower) ==
    {tech_keywords[i] : i \in {k \in DOMAIN tech_keywords :
                                  re_search_word(tech_keywords[k], jd_lower)}}

Retained(tokens, classified) ==
    {w \in Range(tokens) :
        w \notin stopwords /\ Len(w) >= MinTokenLen /\ w \notin classified}

\* the number of occurrences and the first position of each retained token
Occurrences(tokens, retained) == [w \in retained |-> Count(tokens, w)]

FirstSeen(tokens, retained) ==
    [w \in retained |-> SetMin({i \in DOMAIN tokens : tokens[i] = w})]

RankedBefore(occ, first, a, b) ==
    \/ occ[a] > occ[b]
    \/ occ[a] = occ[b] /\ first[a] < first[b]

\* C13: when the job description has a retained token (not a stopword, at
\* least 3 characters, not a taxonomy keyword classified as missing or as
\* present), keywords_to_add is the list of the distinct retained tokens
\* ordered by descending number of occurrences, equal numbers by first
\* occurrence, cut to its first 8; no token is listed twice.
C13_KeywordsRanked ==
    pc = "cli_done" =>
        LET tokens == findall_tokens(lower(job_description))
            R == Retained(tokens, Classified(lower(job_description)))
            occ == Occurrences(tokens, R)
            first == FirstSeen(tokens, R)
            K == StrsOf(output, "keywords_to_add")
        IN  R # {} =>
              /\ Len(K) = Min(MaxKeywords, Cardinality(R))
              /\ \A n \in DOMAIN K : K[n] \in R
              /\ \A n, m \in DOMAIN K :
                     n < m => RankedBefore(occ, first, K[n], K[m])
              /\ \A w \in R \ Range(K) :
                     \A n \in DOMAIN K : RankedBefore(occ, first, K[n], w)

\* more than 8 retained tokens, the first listed more frequent than the
\* last, and the last two equally frequent
C13_Witness ==
    /\ pc = "cli_done"
    /\ LET tokens == findall_tokens(lower(job_description))
           R == Retained(tokens, Classified(lower(job_description)))
           occ == Occurrences(tokens, R)
           K == StrsOf(output, "keywords_to_add")
       IN  /\ Cardinality(R) > MaxKeywords
           /\ Len(K) = MaxKeywords
           /\ occ[K[1]] > occ[K[MaxKeywords]]
           /\ occ[K[MaxKeywords - 1]] = occ[K[MaxKeywords]]

\* the file handles an extraction function opened and has not closed
HeldHandles == Count(events, "open") - Count(events, "close")

\* C14: when an extraction function of the CLI returns, with the text or
\* with the empty string after a caught exception, every file handle it
\* opened has been closed.
C14_HandlesReleased ==
    pc = "extracted" => HeldHandles = 0

====
